---- MODULE Spec2Model ----
(***************************************************************************)
(* Model of the ROC Gym job-board backend (Backend/app.py, Backend/auth.py, *)
(* Backend/scripts/create_admin.py).  Every request handler is a small      *)
(* process: one action per storage call, so that requests of different      *)
(* clients interleave exactly where the code talks to MongoDB.              *)
(***************************************************************************)
EXTENDS Integers, Sequences, FiniteSets, TLC

VARIABLES
    users,      \* db.users: sequence of accounts, _id = index
    jobs,       \* db.jobs: function  ObjectId -> job document
    apps,       \* db.applications: sequence of application documents
    members,    \* db.members: set of opaque member documents
    nextJob,    \* number of job ObjectIds handed out so far
    reqs,       \* per client: the request in flight or the last response
    now,        \* datetime.utcnow(), in minutes
    ticks,      \* number of clock steps taken
    issued,     \* tokens returned by login, with their issuance time
    script,     \* scripts/create_admin.py: "idle", "checked", "done"
    loggedOut,  \* history: the tokens a logout was acknowledged for
    viewLog     \* history: per job, the view counts its fetches returned

vars == <<users, jobs, apps, members, nextJob, reqs, now, ticks, issued, script, loggedOut, viewLog>>

----------------------------------------------------------------------------
(* Bounds of the model *)

MaxJobs == 1
MaxViews == 2
MaxApps == 1
MaxUsers == 3
MaxTicks == 3
MaxIssued == 1

(* auth.py:79  timedelta(minutes=60) *)
TokenTTL == 60

----------------------------------------------------------------------------
(* Identifiers.  An ObjectId is a number; its str() is a well-formed       *)
(* string; ObjectId(s) parses a string back and raises on a malformed one.  *)

Str(oid) == [wf |-> TRUE, n |-> oid]
BadStr == [wf |-> FALSE, n |-> 0]
NoStr == [wf |-> FALSE, n |-> 0 - 1]
ObjectIdRaises(s) == ~s.wf
ObjectId(s) == s.n

JobOid(k) == 10 + k

Clients == {"c1", "c2"}
SeqClients == {"c1"}

(* create_admin.py:16-17 *)
ADMIN_EMAIL == "naresh.adhikari@gmail.com"
ADMIN_PASSWORD == "Nepal123"

----------------------------------------------------------------------------
(* Passwords: bcrypt digests are opaque; checkpw re-hashes with the salt.  *)

hash_password(password) == <<"bcrypt", password>>
check_password(hashed_password, user_password) ==
    hashed_password = hash_password(user_password)

Account(email, password, role) ==
    [email |-> email, password |-> hash_password(password), role |-> role]

(* users_collection.find_one({'email': e}): the first match or none (0) *)
FindUserByEmail_mut_none(us, e) == 0
FindUserByEmail(us, e) ==
    LET hits == {i \in 1..Len(us) : us[i].email = e}
    IN IF hits = {} THEN 0 ELSE CHOOSE i \in hits : \A j \in hits : i <= j

(* db.users.find_one({'_id': oid}) *)
FindUserById(us, oid) == IF oid \in 1..Len(us) THEN oid ELSE 0

----------------------------------------------------------------------------
(* Tokens: a bearer header is absent, not a JWT signed with SECRET_KEY, or  *)
(* a signed payload {user_id?, role, exp}.                                  *)

NoToken == [kind |-> "none", hasUid |-> FALSE, user_id |-> NoStr, role |-> "", exp |-> 0]
GarbageToken == [kind |-> "garbage", hasUid |-> FALSE, user_id |-> NoStr, role |-> "", exp |-> 0]
Signed(uid, role, exp) ==
    [kind |-> "signed", hasUid |-> TRUE, user_id |-> uid, role |-> role, exp |-> exp]
SignedNoUid(role, exp) ==
    [kind |-> "signed", hasUid |-> FALSE, user_id |-> NoStr, role |-> role, exp |-> exp]

(* login: jwt.encode({'user_id', 'role', 'exp': utcnow() + 60 min}) *)
jwt_encode_mut_ttl(user, oid, t) == Signed(Str(oid), user.role, t + 30)
jwt_encode(user, oid, t) == Signed(Str(oid), user.role, t + TokenTTL)

(* jwt.decode: signature first, then exp.  A token presented at the very    *)
(* minute of its exp is expired or not depending on the PyJWT release       *)
(* (exp < now  vs  exp <= now): both outcomes are kept.                     *)
jwt_decode(tok, t) ==
    IF tok.kind # "signed" THEN {"invalid"}
    ELSE IF tok.exp < t THEN {"expired"}
    ELSE IF tok.exp = t THEN {"expired", "ok"}
    ELSE {"ok"}

----------------------------------------------------------------------------
(* Requests and responses *)

EmptyBody == [keys |-> {}, title |-> "", posted_by |-> NoStr, views |-> 0]

(* the JSON body of /auth/register and /auth/login *)
RegData(keys, email, password, role) ==
    [keys |-> keys, email |-> email, password |-> password, role |-> role]

NoData == RegData({}, "", "", "")

(* data and taken are history: the body a registration or login carried,   *)
(* and whether an account with its email was stored when it was received.   *)
Idle ==
    [pc |-> "idle", op |-> "", tok |-> NoToken, jid |-> NoStr, body |-> EmptyBody,
     uid |-> NoStr, role |-> "", status |-> 0, kind |-> "", wrote |-> FALSE,
     seen |-> NoStr, ids |-> {}, result |-> {}, views |-> 0, t0 |-> 0,
     data |-> NoData, taken |-> FALSE, failed |-> FALSE]

(* the handler returns: the response is (status, kind) *)
Respond(r, status, kind) ==
    [r EXCEPT !.pc = "done", !.status = status, !.kind = kind, !.body = EmptyBody]

(* the same, the request's body being kept as history *)
Reply(r, status, kind) == [Respond(r, status, kind) EXCEPT !.body = r.body]

Goto(r, pc) == [r EXCEPT !.pc = pc]

Free(c) == reqs[c].pc \in {"idle", "done"}

ProtectedOps ==
    {"logout", "create_job", "update_job", "delete_job", "apply_for_job",
     "get_job_applications", "get_my_applications", "get_members"}

JobScopedOps == {"update_job", "delete_job", "apply_for_job", "get_job_applications"}

(* @roles_required(...) on each route; absent decorator = no role gate *)
AllowedRoles_mut_members(op) ==
    CASE op \in {"create_job", "update_job", "delete_job", "get_job_applications"}
            -> {"admin", "recruiter"}
      [] op = "get_members" -> {"admin", "recruiter"}
      [] OTHER -> {}
AllowedRoles(op) ==
    CASE op \in {"create_job", "update_job", "delete_job", "get_job_applications"}
            -> {"admin", "recruiter"}
      [] op = "get_members" -> {"admin"}
      [] OTHER -> {}

HasRoleGate(op) ==
    op \in {"create_job", "update_job", "delete_job", "get_job_applications", "get_members"}

(* auth.py:125-133 *)
roles_required_mut_known(op, role) ==
    (HasRoleGate(op) /\ role \in {"admin", "recruiter", "user"}) => role \in AllowedRoles(op)
roles_required(op, role) == HasRoleGate(op) => role \in AllowedRoles(op)


----------------------------------------------------------------------------
(* auth.py:95-122  token_required.  o is jwt.decode's outcome.  The result *)
(* is the early response (status # 0) or the resolved identity (status 0). *)
(* data['user_id'] on a payload without it is a KeyError and ObjectId() of  *)
(* a malformed string an InvalidId: neither is a jwt error, so neither is   *)
(* caught and the request ends as an unhandled error (500).                 *)

Deny(status, kind) == [status |-> status, kind |-> kind, uid |-> NoStr, role |-> ""]

token_required_mut_claim(tok, o, us) ==
    IF tok.kind = "none" THEN Deny(401, "missing")
    ELSE IF o = "expired" THEN Deny(401, "expired")
    ELSE IF o = "invalid" THEN Deny(401, "invalid")
    ELSE IF ~tok.hasUid THEN Deny(500, "unhandled")
    ELSE IF ObjectIdRaises(tok.user_id) THEN Deny(500, "unhandled")
    ELSE IF FindUserById(us, ObjectId(tok.user_id)) = 0 THEN Deny(401, "user_not_found")
    ELSE [status |-> 0, kind |-> "", uid |-> tok.user_id, role |-> tok.role]

token_required_mut_nolookup(tok, o, us) ==
    IF tok.kind = "none" THEN Deny(401, "missing")
    ELSE IF o = "expired" THEN Deny(401, "expired")
    ELSE IF o = "invalid" THEN Deny(401, "invalid")
    ELSE IF ~tok.hasUid THEN Deny(500, "unhandled")
    ELSE IF ObjectIdRaises(tok.user_id) THEN Deny(500, "unhandled")
    ELSE [status |-> 0, kind |-> "", uid |-> tok.user_id, role |-> tok.role]

token_required_mut_optional(tok, o, us) ==
    IF tok.kind = "none" THEN [status |-> 0, kind |-> "", uid |-> NoStr, role |-> ""]
    ELSE IF o = "expired" THEN Deny(401, "expired")
    ELSE IF o = "invalid" THEN Deny(401, "invalid")
    ELSE IF ~tok.hasUid THEN Deny(500, "unhandled")
    ELSE IF ObjectIdRaises(tok.user_id) THEN Deny(500, "unhandled")
    ELSE IF FindUserById(us, ObjectId(tok.user_id)) = 0 THEN Deny(401, "user_not_found")
    ELSE [status |-> 0, kind |-> "",
          uid |-> Str(FindUserById(us, ObjectId(tok.user_id))),
          role |-> us[FindUserById(us, ObjectId(tok.user_id))].role]

token_required(tok, o, us) ==
    IF tok.kind = "none" THEN Deny(401, "missing")
    ELSE IF o = "expired" THEN Deny(401, "expired")
    ELSE IF o = "invalid" THEN Deny(401, "invalid")
    ELSE IF ~tok.hasUid THEN Deny(500, "unhandled")
    ELSE IF ObjectIdRaises(tok.user_id) THEN Deny(500, "unhandled")
    ELSE IF FindUserById(us, ObjectId(tok.user_id)) = 0 THEN Deny(401, "user_not_found")
    ELSE [status |-> 0, kind |-> "",
          uid |-> Str(FindUserById(us, ObjectId(tok.user_id))),
          role |-> us[FindUserById(us, ObjectId(tok.user_id))].role]

----------------------------------------------------------------------------
(* The code of each handler that runs before its first storage call.       *)

CreateRequired == {"title", "details"}
ApplyRequired == {"full_name", "email", "resume_url"}

(* app.py:226  if g.current_user_role != 'user' *)
apply_role_ok_mut_any(role) == TRUE
apply_role_ok(role) == role = "user"

Enter(r, body) ==
    CASE r.op = "logout" -> Respond(r, 200, "logged_out")
      [] r.op = "create_job" ->
            IF CreateRequired \subseteq body.keys
            THEN Goto([r EXCEPT !.body = body], "cj_insert")
            ELSE Respond(r, 400, "missing_fields")
      [] r.op = "update_job" -> Goto([r EXCEPT !.body = body], "uj_find")
      [] r.op = "delete_job" -> Goto(r, "dj_find")
      [] r.op = "apply_for_job" ->
            IF apply_role_ok(r.role)
            THEN Goto([r EXCEPT !.body = body], "ap_find")
            ELSE Respond(r, 403, "apply_forbidden")
      [] r.op = "get_job_applications" -> Goto(r, "la_find")
      [] r.op = "get_my_applications" ->
            CASE r.role = "user" -> Goto(r, "ma_user")
              [] r.role = "admin" -> Goto(r, "ma_admin")
              [] r.role = "recruiter" -> Goto(r, "ma_jobs")
              [] OTHER -> Respond(r, 200, "listed")
      [] r.op = "get_members" -> Goto(r, "mb_list")

(* A protected request arrives: token_required, roles_required, then the   *)
(* handler up to its first storage call.                                    *)
Arrive(op, tok, jid, body, o, us, t) ==
    LET a == token_required(tok, o, us)
        r0 == [Idle EXCEPT !.op = op, !.tok = tok, !.t0 = t]
    IN IF a.status # 0 THEN Respond(r0, a.status, a.kind)
       ELSE LET r1 == [r0 EXCEPT !.uid = a.uid, !.role = a.role]
            IN IF ~roles_required(op, a.role) THEN Respond(r1, 403, "forbidden")
               ELSE Enter([r1 EXCEPT !.jid = jid], body)

InFlight(op) == Cardinality({c \in Clients : reqs[c].op = op /\ ~Free(c)})

(* the request is received by a client that has none in flight *)
Receive(c, op, tok, jid, body) ==
    /\ Free(c)
    /\ \E o \in jwt_decode(tok, now) :
          reqs' = [reqs EXCEPT ![c] = Arrive(op, tok, jid, body, o, users, now)]
    /\ UNCHANGED <<users, jobs, apps, members, nextJob, now, ticks, issued, script, viewLog>>

(* at most MaxJobs jobs are created and at most MaxApps applications made *)
Begin(c, op, tok, jid, body) ==
    /\ op = "create_job" => nextJob + InFlight("create_job") < MaxJobs
    /\ op = "apply_for_job" => Len(apps) + InFlight("apply_for_job") < MaxApps
    /\ Receive(c, op, tok, jid, body)

(* the same, with room for one application more than MaxApps: the repeated *)
(* application of an applicant who already has one                          *)
BeginApply(c, tok, jid, body) ==
    /\ Len(apps) + InFlight("apply_for_job") <= MaxApps
    /\ Receive(c, "apply_for_job", tok, jid, body)


----------------------------------------------------------------------------
(* Storage helpers *)

JobExists(oid) == oid \in DOMAIN jobs

(* update_one({"_id": oid}, {"$set": data}): the keys of data overwrite the *)
(* document's, whatever they are; the other fields are left alone.          *)
SetFields_mut_nostamp(job, body, uid, t) ==
    [job EXCEPT
        !.title = IF "title" \in body.keys THEN body.title ELSE @,
        !.posted_by = IF "posted_by" \in body.keys THEN body.posted_by ELSE @,
        !.views = IF "views" \in body.keys THEN body.views ELSE @,
        !.updated_by = IF body.keys = {} THEN @ ELSE uid,
        !.updated_at = IF body.keys = {} THEN @ ELSE t]

SetFields(job, body, uid, t) ==
    [job EXCEPT
        !.title = IF "title" \in body.keys THEN body.title ELSE @,
        !.posted_by = IF "posted_by" \in body.keys THEN body.posted_by ELSE @,
        !.views = IF "views" \in body.keys THEN body.views ELSE @,
        !.updated_by = uid,
        !.updated_at = t]

RemoveKey(f, k) == [x \in DOMAIN f \ {k} |-> f[x]]

AppsOfJob(oid) == {i \in 1..Len(apps) : apps[i].job_id = oid}
AppsOfApplicant(uid) == {i \in 1..Len(apps) : apps[i].applicant_id = uid}
AppsOfJobs(oids) == {i \in 1..Len(apps) : apps[i].job_id \in oids}
JobsPostedBy_mut_all(uid) == DOMAIN jobs
JobsPostedBy(uid) == {oid \in DOMAIN jobs : jobs[oid].posted_by = uid}

(* app.py:179, 209, 301  the ownership gate on the fetched job *)
OwnershipDenied_mut_none(role, job, uid) == FALSE
OwnershipDenied(role, job, uid) == role = "recruiter" /\ job.posted_by # uid

At(c, pc) == reqs[c].pc = pc
Set(c, r) == reqs' = [reqs EXCEPT ![c] = r]

(* The find_one + permission check that opens update_job, delete_job and   *)
(* get_job_applications (app.py:173-180, 203-210, 294-304).                 *)
FindAndGate(r, next) ==
    IF ObjectIdRaises(r.jid) THEN Respond(r, 400, "bad_id")
    ELSE IF ~JobExists(ObjectId(r.jid)) THEN Respond(r, 404, "not_found")
    ELSE LET job == jobs[ObjectId(r.jid)]
             r1 == [r EXCEPT !.seen = job.posted_by]
         IN IF OwnershipDenied(r.role, job, r.uid)
            THEN Respond(r1, 403, "not_owner")
            ELSE Goto(r1, next)

----------------------------------------------------------------------------
(* app.py:93-121  create_job *)

create_job_insert(c) ==
    /\ At(c, "cj_insert")
    /\ nextJob < MaxJobs
    /\ LET r == reqs[c]
           oid == JobOid(nextJob + 1)
           new_job == [posted_by |-> r.uid, title |-> r.body.title, views |-> 0,
                       updated_by |-> NoStr, updated_at |-> 0 - 1]
       IN /\ jobs' = [x \in DOMAIN jobs \cup {oid} |-> IF x = oid THEN new_job ELSE jobs[x]]
          /\ nextJob' = nextJob + 1
          /\ Set(c, [r EXCEPT !.pc = "cj_fetch", !.jid = Str(oid), !.wrote = TRUE,
                              !.body = EmptyBody])
    /\ UNCHANGED <<users, apps, members, now, ticks, issued, script, loggedOut, viewLog>>

(* find_one of the inserted id; serialize_doc(None) is an uncaught TypeError *)
create_job_fetch(c) ==
    /\ At(c, "cj_fetch")
    /\ LET r == reqs[c]
           oid == ObjectId(r.jid)
       IN IF JobExists(oid)
          THEN Set(c, Respond([r EXCEPT !.views = jobs[oid].views,
                                        !.seen = jobs[oid].posted_by], 201, "created"))
          ELSE Set(c, Respond(r, 500, "unhandled"))
    /\ UNCHANGED <<users, jobs, apps, members, nextJob, now, ticks, issued, script, loggedOut, viewLog>>

----------------------------------------------------------------------------
(* app.py:144-162  get_job_by_id: public; one find_one_and_update, which   *)
(* MongoDB applies to the document atomically and which returns the         *)
(* document after the update (return_document=True).                        *)

(* {"$inc": {"views": 1}} *)
Inc_mut_none(v) == v
Inc(v) == v + 1

(* return_document: the document the call hands back *)
ReturnDocument_mut_before(before, after) == before
ReturnDocument(before, after) == after

LogOf(oid) == IF oid \in DOMAIN viewLog THEN viewLog[oid] ELSE << >>

Logged(oid, v) ==
    [x \in DOMAIN viewLog \cup {oid} |->
        IF x = oid THEN Append(LogOf(oid), v) ELSE viewLog[x]]

get_job_by_id(c, jid) ==
    /\ Free(c)
    /\ LET r == [Idle EXCEPT !.op = "get_job_by_id", !.jid = jid, !.t0 = now]
       IN IF ObjectIdRaises(jid)
          THEN /\ Set(c, Respond(r, 400, "bad_id"))
               /\ UNCHANGED <<jobs, viewLog>>
          ELSE IF ~JobExists(ObjectId(jid))
          THEN /\ Set(c, Respond(r, 404, "not_found"))
               /\ UNCHANGED <<jobs, viewLog>>
          ELSE LET oid == ObjectId(jid)
                   before == jobs[oid]
                   after == [before EXCEPT !.views = Inc(before.views)]
                   result == ReturnDocument(before, after)
               IN /\ before.views < MaxViews
                  /\ Len(LogOf(oid)) < MaxViews
                  /\ jobs' = [jobs EXCEPT ![oid] = after]
                  /\ viewLog' = Logged(oid, result.views)
                  /\ Set(c, Respond([r EXCEPT !.views = result.views,
                                              !.seen = result.posted_by,
                                              !.wrote = TRUE], 200, "fetched"))
    /\ UNCHANGED <<users, apps, members, nextJob, now, ticks, issued, script, loggedOut>>

----------------------------------------------------------------------------
(* app.py:164-192  update_job *)

update_job_find(c) ==
    /\ At(c, "uj_find")
    /\ Set(c, FindAndGate(reqs[c], "uj_write"))
    /\ UNCHANGED <<users, jobs, apps, members, nextJob, now, ticks, issued, script, loggedOut, viewLog>>

(* update_one: modified_count is 1 when the document matched and changed *)
update_job_write(c) ==
    /\ At(c, "uj_write")
    /\ LET r == reqs[c]
           oid == ObjectId(r.jid)
       IN IF JobExists(oid) /\ SetFields(jobs[oid], r.body, r.uid, now) # jobs[oid]
          THEN /\ jobs' = [jobs EXCEPT ![oid] = SetFields(jobs[oid], r.body, r.uid, now)]
               /\ Set(c, [r EXCEPT !.pc = "uj_fetch", !.wrote = TRUE, !.body = EmptyBody])
          ELSE /\ UNCHANGED jobs
               /\ Set(c, Respond(r, 200, "no_changes"))
    /\ UNCHANGED <<users, apps, members, nextJob, now, ticks, issued, script, loggedOut, viewLog>>

(* the re-read; serialize_doc(None) raises inside the try: 400 *)
update_job_fetch(c) ==
    /\ At(c, "uj_fetch")
    /\ LET r == reqs[c]
           oid == ObjectId(r.jid)
       IN IF JobExists(oid)
          THEN Set(c, Respond([r EXCEPT !.views = jobs[oid].views], 200, "updated"))
          ELSE Set(c, Respond(r, 400, "bad_id"))
    /\ UNCHANGED <<users, jobs, apps, members, nextJob, now, ticks, issued, script, loggedOut, viewLog>>

----------------------------------------------------------------------------
(* app.py:195-218  delete_job *)

delete_job_find(c) ==
    /\ At(c, "dj_find")
    /\ Set(c, FindAndGate(reqs[c], "dj_delete"))
    /\ UNCHANGED <<users, jobs, apps, members, nextJob, now, ticks, issued, script, loggedOut, viewLog>>

delete_job_delete(c) ==
    /\ At(c, "dj_delete")
    /\ LET r == reqs[c]
           oid == ObjectId(r.jid)
       IN IF JobExists(oid)
          THEN /\ jobs' = RemoveKey(jobs, oid)
               /\ Set(c, Respond([r EXCEPT !.wrote = TRUE], 200, "deleted"))
          ELSE /\ UNCHANGED jobs
               /\ Set(c, Respond(r, 404, "not_found"))
    /\ UNCHANGED <<users, apps, members, nextJob, now, ticks, issued, script, loggedOut, viewLog>>

----------------------------------------------------------------------------
(* app.py:285-316  get_job_applications *)

get_job_applications_find(c) ==
    /\ At(c, "la_find")
    /\ Set(c, FindAndGate(reqs[c], "la_list"))
    /\ UNCHANGED <<users, jobs, apps, members, nextJob, now, ticks, issued, script, loggedOut, viewLog>>

get_job_applications_list(c) ==
    /\ At(c, "la_list")
    /\ Set(c, Respond([reqs[c] EXCEPT !.result = AppsOfJob(ObjectId(reqs[c].jid))],
                      200, "listed"))
    /\ UNCHANGED <<users, jobs, apps, members, nextJob, now, ticks, issued, script, loggedOut, viewLog>>


----------------------------------------------------------------------------
(* app.py:221-282  apply_for_job (the role check is in Enter) *)

apply_for_job_find_mut_nolookup(c) ==
    /\ At(c, "ap_find")
    /\ LET r == reqs[c]
       IN IF ObjectIdRaises(r.jid) THEN Set(c, Reply(r, 400, "bad_id"))
          ELSE Set(c, Goto(r, "ap_dup"))
    /\ UNCHANGED <<users, jobs, apps, members, nextJob, now, ticks, issued, script, loggedOut, viewLog>>

apply_for_job_find(c) ==
    /\ At(c, "ap_find")
    /\ LET r == reqs[c]
       IN IF ObjectIdRaises(r.jid) THEN Set(c, Reply(r, 400, "bad_id"))
          ELSE IF ~JobExists(ObjectId(r.jid)) THEN Set(c, Reply(r, 404, "not_found"))
          ELSE Set(c, Goto(r, "ap_dup"))
    /\ UNCHANGED <<users, jobs, apps, members, nextJob, now, ticks, issued, script, loggedOut, viewLog>>

(* the existence check, then the required-field check *)
apply_for_job_check_mut_nodup(c) ==
    /\ At(c, "ap_dup")
    /\ LET r == reqs[c]
           existing == AppsOfJob(ObjectId(r.jid)) \cap AppsOfApplicant(r.uid)
       IN IF FALSE THEN Set(c, Reply(r, 409, "conflict"))
          ELSE IF ~(ApplyRequired \subseteq r.body.keys)
          THEN Set(c, Reply(r, 400, "missing_fields"))
          ELSE Set(c, Goto(r, "ap_insert"))
    /\ UNCHANGED <<users, jobs, apps, members, nextJob, now, ticks, issued, script, loggedOut, viewLog>>

apply_for_job_check_mut_order(c) ==
    /\ At(c, "ap_dup")
    /\ LET r == reqs[c]
           existing == AppsOfJob(ObjectId(r.jid)) \cap AppsOfApplicant(r.uid)
       IN IF ~(ApplyRequired \subseteq r.body.keys)
          THEN Set(c, Reply(r, 400, "missing_fields"))
          ELSE IF existing # {} THEN Set(c, Reply(r, 409, "conflict"))
          ELSE Set(c, Goto(r, "ap_insert"))
    /\ UNCHANGED <<users, jobs, apps, members, nextJob, now, ticks, issued, script, loggedOut, viewLog>>

apply_for_job_check(c) ==
    /\ At(c, "ap_dup")
    /\ LET r == reqs[c]
           existing == AppsOfJob(ObjectId(r.jid)) \cap AppsOfApplicant(r.uid)
       IN IF existing # {} THEN Set(c, Reply(r, 409, "conflict"))
          ELSE IF ~(ApplyRequired \subseteq r.body.keys)
          THEN Set(c, Reply(r, 400, "missing_fields"))
          ELSE Set(c, Goto(r, "ap_insert"))
    /\ UNCHANGED <<users, jobs, apps, members, nextJob, now, ticks, issued, script, loggedOut, viewLog>>

(* insert_one, then find_one of the inserted id: applications are never    *)
(* updated or deleted, so the re-read returns the inserted document.        *)
apply_for_job_insert_mut_unique(c) ==
    /\ At(c, "ap_insert")
    /\ Len(apps) <= MaxApps
    /\ LET r == reqs[c]
           new_application == [job_id |-> ObjectId(r.jid), applicant_id |-> r.uid,
                               status |-> "pending"]
       IN IF AppsOfJob(ObjectId(r.jid)) \cap AppsOfApplicant(r.uid) # {}
          THEN /\ UNCHANGED apps
               /\ Set(c, Reply(r, 409, "conflict"))
          ELSE /\ apps' = Append(apps, new_application)
               /\ Set(c, Reply([r EXCEPT !.wrote = TRUE, !.result = {Len(apps) + 1}],
                                 201, "applied"))
    /\ UNCHANGED <<users, jobs, members, nextJob, now, ticks, issued, script, loggedOut, viewLog>>

apply_for_job_insert(c) ==
    /\ At(c, "ap_insert")
    /\ Len(apps) <= MaxApps
    /\ LET r == reqs[c]
           new_application == [job_id |-> ObjectId(r.jid), applicant_id |-> r.uid,
                               status |-> "pending"]
       IN /\ apps' = Append(apps, new_application)
          /\ Set(c, Reply([r EXCEPT !.wrote = TRUE, !.result = {Len(apps) + 1}],
                            201, "applied"))
    /\ UNCHANGED <<users, jobs, members, nextJob, now, ticks, issued, script, loggedOut, viewLog>>

----------------------------------------------------------------------------
(* app.py:319-350  get_my_applications *)

get_my_applications_user(c) ==
    /\ At(c, "ma_user")
    /\ Set(c, Respond([reqs[c] EXCEPT !.result = AppsOfApplicant(reqs[c].uid)],
                      200, "listed"))
    /\ UNCHANGED <<users, jobs, apps, members, nextJob, now, ticks, issued, script, loggedOut, viewLog>>

get_my_applications_admin(c) ==
    /\ At(c, "ma_admin")
    /\ Set(c, Respond([reqs[c] EXCEPT !.result = 1..Len(apps)], 200, "listed"))
    /\ UNCHANGED <<users, jobs, apps, members, nextJob, now, ticks, issued, script, loggedOut, viewLog>>

get_my_applications_jobs(c) ==
    /\ At(c, "ma_jobs")
    /\ Set(c, [reqs[c] EXCEPT !.pc = "ma_apps", !.ids = JobsPostedBy(reqs[c].uid)])
    /\ UNCHANGED <<users, jobs, apps, members, nextJob, now, ticks, issued, script, loggedOut, viewLog>>

get_my_applications_apps(c) ==
    /\ At(c, "ma_apps")
    /\ Set(c, Respond([reqs[c] EXCEPT !.result = AppsOfJobs(reqs[c].ids)], 200, "listed"))
    /\ UNCHANGED <<users, jobs, apps, members, nextJob, now, ticks, issued, script, loggedOut, viewLog>>

----------------------------------------------------------------------------
(* app.py:355-373  get_members *)

get_members_list(c) ==
    /\ At(c, "mb_list")
    /\ Set(c, Respond([reqs[c] EXCEPT !.result = members], 200, "listed"))
    /\ UNCHANGED <<users, jobs, apps, members, nextJob, now, ticks, issued, script, loggedOut, viewLog>>

----------------------------------------------------------------------------
(* auth.py:18-45  register_user: validation and find_one, then insert_one  *)

RegFields == {"email", "password", "role"}

register_user_check_mut_order(c, data) ==
    /\ Free(c)
    /\ Len(users) + InFlight("register_user") + (IF script = "checked" THEN 1 ELSE 0) < MaxUsers
    /\ LET r == [Idle EXCEPT !.op = "register_user", !.t0 = now, !.data = data,
                             !.taken = \E i \in 1..Len(users) :
                                          "email" \in data.keys /\ users[i].email = data.email]
       IN IF ~(RegFields \subseteq data.keys)
          THEN Set(c, Respond(r, 400, "missing_fields"))
          ELSE IF FindUserByEmail(users, data.email) # 0
          THEN Set(c, Respond(r, 409, "conflict"))
          ELSE IF data.role \notin {"admin", "recruiter", "user"}
          THEN Set(c, Respond(r, 400, "invalid_role"))
          ELSE Set(c, [r EXCEPT !.pc = "rg_insert",
                                !.ids = {Account(data.email, data.password, data.role)}])
    /\ UNCHANGED <<users, jobs, apps, members, nextJob, now, ticks, issued, script, loggedOut, viewLog>>

register_user_check(c, data) ==
    /\ Free(c)
    /\ Len(users) + InFlight("register_user") + (IF script = "checked" THEN 1 ELSE 0) < MaxUsers
    /\ LET r == [Idle EXCEPT !.op = "register_user", !.t0 = now, !.data = data,
                             !.taken = \E i \in 1..Len(users) :
                                          "email" \in data.keys /\ users[i].email = data.email]
       IN IF ~(RegFields \subseteq data.keys)
          THEN Set(c, Respond(r, 400, "missing_fields"))
          ELSE IF data.role \notin {"admin", "recruiter", "user"}
          THEN Set(c, Respond(r, 400, "invalid_role"))
          ELSE IF FindUserByEmail(users, data.email) # 0
          THEN Set(c, Respond(r, 409, "conflict"))
          ELSE Set(c, [r EXCEPT !.pc = "rg_insert",
                                !.ids = {Account(data.email, data.password, data.role)}])
    /\ UNCHANGED <<users, jobs, apps, members, nextJob, now, ticks, issued, script, loggedOut, viewLog>>

register_user_insert(c) ==
    /\ At(c, "rg_insert")
    /\ \E new_user \in reqs[c].ids :
          /\ users' = Append(users, new_user)
          /\ Set(c, Respond([reqs[c] EXCEPT !.wrote = TRUE, !.ids = {},
                                            !.uid = Str(Len(users) + 1),
                                            !.role = new_user.role], 201, "registered"))
    /\ UNCHANGED <<jobs, apps, members, nextJob, now, ticks, issued, script, loggedOut, viewLog>>

----------------------------------------------------------------------------
(* auth.py:47-84  login *)

login(c, email, password) ==
    /\ Free(c)
    /\ LET r == [Idle EXCEPT !.op = "login", !.t0 = now,
                             !.data = RegData({"email", "password"}, email, password, "")]
           i == FindUserByEmail(users, email)
       IN IF i = 0
          THEN /\ Set(c, Respond(r, 401, "no_such_user"))
               /\ UNCHANGED issued
          ELSE IF ~check_password(users[i].password, password)
          THEN /\ Set(c, Respond(r, 401, "wrong_password"))
               /\ UNCHANGED issued
          ELSE LET token == jwt_encode(users[i], i, now)
               IN /\ Cardinality(issued \cup {[tok |-> token, at |-> now]}) <= MaxIssued
                  /\ issued' = issued \cup {[tok |-> token, at |-> now]}
                  /\ Set(c, Respond([r EXCEPT !.tok = token, !.uid = Str(i),
                                              !.role = users[i].role], 200, "token"))
    /\ UNCHANGED <<users, jobs, apps, members, nextJob, now, ticks, script, loggedOut, viewLog>>

----------------------------------------------------------------------------
(* scripts/create_admin.py:20-38  ensure_admin_user *)

ensure_admin_user_check ==
    /\ script = "idle"
    /\ Len(users) + InFlight("register_user") < MaxUsers
    /\ script' = IF FindUserByEmail(users, ADMIN_EMAIL) # 0 THEN "done" ELSE "checked"
    /\ UNCHANGED <<users, jobs, apps, members, nextJob, reqs, now, ticks, issued, loggedOut, viewLog>>

ensure_admin_user_insert ==
    /\ script = "checked"
    /\ users' = Append(users, Account(ADMIN_EMAIL, ADMIN_PASSWORD, "admin"))
    /\ script' = "done"
    /\ UNCHANGED <<jobs, apps, members, nextJob, reqs, now, ticks, issued, loggedOut, viewLog>>

(* the script is run again *)
ensure_admin_user_rerun ==
    /\ script = "done"
    /\ script' = "idle"
    /\ UNCHANGED <<users, jobs, apps, members, nextJob, reqs, now, ticks, issued, loggedOut, viewLog>>

----------------------------------------------------------------------------
(* The clock *)

TickSteps == {1, TokenTTL - 1}

Tick(d) ==
    /\ ticks < MaxTicks
    /\ now' = now + d
    /\ ticks' = ticks + 1
    /\ UNCHANGED <<users, jobs, apps, members, nextJob, reqs, issued, script, loggedOut, viewLog>>


----------------------------------------------------------------------------
(* Inputs *)

(* The accounts the job-board scenarios start from: an admin, two          *)
(* recruiters and a user, each created by a successful registration.        *)
SeedUsers ==
    <<Account("admin@test.com", "password", "admin"),
      Account("recruiter@test.com", "password", "recruiter"),
      Account("recruiter2@test.com", "password", "recruiter"),
      Account("user@test.com", "password", "user")>>

(* Bearer tokens a client may present at time t: none, a string that is no *)
(* JWT, what login returns for each account, and payloads signed with the   *)
(* server's key as test_app.py builds them (expired, unknown account,       *)
(* a role claim that differs from the account's role, no user_id, a         *)
(* user_id that is no ObjectId).                                            *)
LoginTokens(us, t) == {jwt_encode(us[i], i, t) : i \in 1..Len(us)}

CraftedTokens(us, t) ==
    {Signed(BadStr, "admin", t - TokenTTL),
     Signed(Str(Len(us) + 1), "admin", t + TokenTTL),
     Signed(Str(Len(us)), "admin", t + TokenTTL),
     SignedNoUid("admin", t + TokenTTL),
     Signed(BadStr, "admin", t + TokenTTL)}

TokenInputs == {NoToken, GarbageToken} \cup LoginTokens(users, now) \cup CraftedTokens(users, now)

JobIdInputs == {Str(JobOid(k)) : k \in 1..MaxJobs} \cup {BadStr}

JidInputs(op) == IF op \in JobScopedOps THEN JobIdInputs ELSE {NoStr}

UpdateBodies ==
    {[keys |-> ks, title |-> IF "title" \in ks THEN "Updated" ELSE "",
      posted_by |-> NoStr, views |-> 0] : ks \in SUBSET {"title"}}

BodyInputs(op) ==
    CASE op = "create_job" ->
            {[EmptyBody EXCEPT !.keys = CreateRequired, !.title = "Test Job"],
             [EmptyBody EXCEPT !.keys = {"title"}, !.title = "Test Job"]}
      [] op = "update_job" -> UpdateBodies
      [] op = "apply_for_job" ->
            {[EmptyBody EXCEPT !.keys = ApplyRequired],
             [EmptyBody EXCEPT !.keys = {"full_name"}]}
      [] OTHER -> {EmptyBody}

----------------------------------------------------------------------------
(* The job board, one request at a time, from the seeded accounts.         *)

Init ==
    /\ users = SeedUsers
    /\ jobs = << >>
    /\ apps = << >>
    /\ members = {"member1"}
    /\ nextJob = 0
    /\ reqs = [c \in Clients |-> Idle]
    /\ now = 0
    /\ ticks = 0
    /\ issued = {}
    /\ script = "idle"
    /\ loggedOut = {}
    /\ viewLog = << >>

Step(c) ==
    \/ create_job_insert(c)
    \/ create_job_fetch(c)
    \/ update_job_find(c)
    \/ update_job_write(c)
    \/ update_job_fetch(c)
    \/ delete_job_find(c)
    \/ delete_job_delete(c)
    \/ get_job_applications_find(c)
    \/ get_job_applications_list(c)
    \/ apply_for_job_find(c)
    \/ apply_for_job_check(c)
    \/ apply_for_job_insert(c)
    \/ get_my_applications_user(c)
    \/ get_my_applications_admin(c)
    \/ get_my_applications_jobs(c)
    \/ get_my_applications_apps(c)
    \/ get_members_list(c)

(* A request that token_required or roles_required turns away never has   *)
(* its path id or body read (Arrive drops them): it is enumerated once.     *)
Admits(op, tok) ==
    \E o \in jwt_decode(tok, now) :
        LET a == token_required(tok, o, users)
        IN a.status = 0 /\ roles_required(op, a.role)

Request(c) ==
    \E op \in ProtectedOps : \E tok \in TokenInputs :
        IF Admits(op, tok)
        THEN \E jid \in JidInputs(op) : \E body \in BodyInputs(op) :
                Begin(c, op, tok, jid, body)
        ELSE Begin(c, op, tok, NoStr, EmptyBody)

Next ==
    \E c \in SeqClients :
        \/ Request(c) /\ UNCHANGED loggedOut
        \/ Step(c)

Spec == Init /\ [][Next]_vars


----------------------------------------------------------------------------
(* Properties of the job board (Spec) *)

Answered(r) == r.pc = "done"
Authenticated(r) == r.op \in ProtectedOps /\ r.uid # NoStr
Unexpired(r) == r.tok.kind = "signed" /\ r.tok.exp > r.t0
OwnerGated == {"update_job", "delete_job", "get_job_applications"}
PastGate == {"uj_write", "uj_fetch", "dj_delete", "la_list"}

(* C1: on a job that was found, update, delete and listing of applications *)
(* by a recruiter who is not the job's owner end 403 with nothing written   *)
(* and never get past the ownership check; by an admin they end 200         *)
(* whoever owns the job.                                                    *)
C1_OwnershipGate ==
    \A c \in Clients :
        LET r == reqs[c]
        IN /\ (r.op \in OwnerGated /\ r.role = "recruiter" /\ r.pc \in PastGate)
                => r.seen = r.uid
           /\ (Answered(r) /\ r.op \in OwnerGated /\ r.seen # NoStr
                 /\ r.role = "recruiter" /\ r.seen # r.uid)
                => (r.status = 403 /\ ~r.wrote)
           /\ (Answered(r) /\ r.op \in OwnerGated /\ r.seen # NoStr /\ r.role = "admin")
                => r.status = 200

(* a recruiter was refused the deletion of another recruiter's job, which  *)
(* is still stored *)
C1_Witness ==
    \E c \in Clients :
        LET r == reqs[c]
        IN /\ Answered(r) /\ r.op = "delete_job" /\ r.role = "recruiter"
           /\ r.status = 403 /\ r.seen # r.uid
           /\ JobExists(ObjectId(r.jid))
           /\ jobs[ObjectId(r.jid)].posted_by = r.seen
           /\ users[ObjectId(r.seen)].role = "recruiter"

(* C2: an authenticated caller whose role is outside the operation's       *)
(* allowed set ({admin, recruiter} for job create, update, delete and       *)
(* per-job application listing, {admin} for member listing) is answered     *)
(* 403 at once and writes nothing.                                          *)
C2_RoleGate ==
    \A c \in Clients :
        LET r == reqs[c]
            allowed == IF r.op = "get_members" THEN {"admin"} ELSE {"admin", "recruiter"}
        IN (Authenticated(r)
              /\ r.op \in {"create_job", "update_job", "delete_job",
                           "get_job_applications", "get_members"}
              /\ r.role \notin allowed)
            => (Answered(r) /\ r.status = 403 /\ ~r.wrote)

(* a recruiter was refused the member listing *)
C2_Witness ==
    \E c \in Clients :
        LET r == reqs[c]
        IN Answered(r) /\ r.op = "get_members" /\ r.role = "recruiter" /\ r.status = 403

(* C3: an authenticated admin or recruiter who applies for a job is         *)
(* answered 403 before any lookup, whatever the job id, and no application  *)
(* is inserted.                                                             *)
C3_ApplyForbidden ==
    \A c \in Clients :
        LET r == reqs[c]
        IN (Authenticated(r) /\ r.op = "apply_for_job" /\ r.role \in {"admin", "recruiter"})
            => (Answered(r) /\ r.status = 403 /\ ~r.wrote)

(* an admin was refused the application for a job that exists *)
C3_Witness ==
    \E c \in Clients :
        LET r == reqs[c]
        IN /\ Answered(r) /\ r.op = "apply_for_job" /\ r.role = "admin" /\ r.status = 403
           /\ ~ObjectIdRaises(r.jid) /\ JobExists(ObjectId(r.jid))

(* C4: a protected operation called without a bearer token is answered 401 *)
(* (token missing), whatever the operation, and writes nothing.             *)
C4_AuthenticationFirst ==
    \A c \in Clients :
        LET r == reqs[c]
        IN (r.op \in ProtectedOps /\ r.tok = NoToken)
            => (Answered(r) /\ r.status = 401 /\ r.kind = "missing" /\ ~r.wrote
                /\ r.uid = NoStr)

(* a job update without a token was refused while a job is stored *)
C4_Witness ==
    \E c \in Clients :
        LET r == reqs[c]
        IN /\ Answered(r) /\ r.op = "update_job" /\ r.tok = NoToken /\ r.status = 401
           /\ DOMAIN jobs # {}

C6_UnknownAccount ==
    \A c \in Clients :
        LET r == reqs[c]
        IN (r.op \in ProtectedOps /\ Unexpired(r) /\ r.tok.hasUid
              /\ ~ObjectIdRaises(r.tok.user_id)
              /\ ObjectId(r.tok.user_id) \notin 1..Len(users))
            => (Answered(r) /\ r.status = 401 /\ r.kind = "user_not_found" /\ ~r.wrote)

(* such a token embedding the role admin was refused the member listing *)
C6_Witness ==
    \E c \in Clients :
        LET r == reqs[c]
        IN /\ Answered(r) /\ r.op = "get_members" /\ Unexpired(r) /\ r.tok.role = "admin"
           /\ r.tok.hasUid /\ ~ObjectIdRaises(r.tok.user_id)
           /\ ObjectId(r.tok.user_id) \notin 1..Len(users)
           /\ r.status = 401

MalformedToken(r) ==
    \/ r.tok.kind = "garbage"
    \/ Unexpired(r) /\ (~r.tok.hasUid \/ ObjectIdRaises(r.tok.user_id))

(* C7: every structurally malformed token (no JWT at all, or a signed and  *)
(* unexpired payload without user_id or with a user_id that is no           *)
(* ObjectId) is answered 401 (token invalid).                               *)
C7_MalformedIsInvalid ==
    \A c \in Clients :
        LET r == reqs[c]
        IN (r.op \in ProtectedOps /\ MalformedToken(r))
            => (Answered(r) /\ r.status = 401 /\ r.kind = "invalid")


----------------------------------------------------------------------------
(* The token layer over time (SpecAuth): logins, the clock, and protected  *)
(* requests carrying no token or a token a login returned.  No job is       *)
(* created here, so the job-scoped handlers end at their lookup.            *)

LoginEmails == {"admin@test.com", "user@test.com", "nobody@test.com"}
LoginPasswords == {"password", "wrongpassword"}

AuthOps == ProtectedOps \ {"create_job"}

AuthTokens == {NoToken} \cup {i.tok : i \in issued}

AuthJid(op) == IF op \in JobScopedOps THEN {Str(JobOid(1))} ELSE {NoStr}

RequestAuth(c) ==
    \E op \in AuthOps : \E tok \in AuthTokens : \E jid \in AuthJid(op) :
        /\ Begin(c, op, tok, jid, [EmptyBody EXCEPT !.keys = ApplyRequired])
        /\ loggedOut' = IF op = "logout" /\ reqs'[c].status = 200
                        THEN loggedOut \cup {tok}
                        ELSE loggedOut

StepAuth(c) ==
    \/ update_job_find(c)
    \/ delete_job_find(c)
    \/ get_job_applications_find(c)
    \/ apply_for_job_find(c)
    \/ get_my_applications_user(c)
    \/ get_my_applications_admin(c)
    \/ get_members_list(c)

NextAuth ==
    \/ \E c \in SeqClients :
          \/ \E email \in LoginEmails : \E password \in LoginPasswords :
                login(c, email, password)
          \/ RequestAuth(c)
          \/ StepAuth(c)
    \/ \E d \in TickSteps : Tick(d)

SpecAuth == Init /\ [][NextAuth]_vars

(* C8: a token login returned at time T resolves to its account when       *)
(* presented before T + 60 min (so at T + 59) and is answered 401 (token    *)
(* expired) when presented after T + 60 min (so at T + 61).                 *)
C8_TokenLifetime ==
    \A c \in Clients : \A i \in issued :
        LET r == reqs[c]
        IN (r.op \in ProtectedOps /\ r.tok = i.tok) =>
            /\ r.t0 < i.at + 60 =>
                  (Authenticated(r) /\ r.uid = i.tok.user_id /\ r.status # 401)
            /\ r.t0 > i.at + 60 =>
                  (Answered(r) /\ r.status = 401 /\ r.kind = "expired")

(* a token was refused as expired 61 minutes after login returned it *)
C8_Witness ==
    \E c \in Clients : \E i \in issued :
        LET r == reqs[c]
        IN /\ r.op \in ProtectedOps /\ r.tok = i.tok
           /\ r.t0 = i.at + 61 /\ r.status = 401 /\ r.kind = "expired"

(* a token was accepted 59 minutes after login returned it *)
C8_WitnessValid ==
    \E c \in Clients : \E i \in issued :
        LET r == reqs[c]
        IN /\ r.op = "get_members" /\ r.tok = i.tok
           /\ r.t0 = i.at + 59 /\ r.status = 200

LogoutStep ==
    \E c \in Clients : reqs'[c] # reqs[c] /\ reqs'[c].op = "logout"

(* in every state: an acknowledged logout carried a token that resolved    *)
(* and wrote nothing; a token a logout was acknowledged for still resolves  *)
(* to its account and that account's role before its expiry                 *)
C9_LogoutState ==
    \A c \in Clients :
        LET r == reqs[c]
        IN /\ (r.op = "logout" /\ Answered(r) /\ r.status = 200)
                => (Authenticated(r) /\ r.tok.kind = "signed" /\ r.t0 <= r.tok.exp
                    /\ ~r.wrote)
           /\ (r.op \in ProtectedOps /\ r.tok \in loggedOut /\ r.t0 < r.tok.exp)
                => (Authenticated(r) /\ r.uid = r.tok.user_id
                    /\ r.role = users[ObjectId(r.uid)].role /\ r.status # 401)

(* C9: logout is acknowledged only for a token that resolves, changes no   *)
(* collection and no issued token, and revokes nothing: a token a logout    *)
(* was acknowledged for, presented again before its expiry, still resolves  *)
(* to the same account and role on every protected operation.               *)
C9_Logout ==
    /\ []C9_LogoutState
    /\ [][LogoutStep => UNCHANGED <<users, jobs, apps, members, issued>>]_vars

(* after an acknowledged logout, the same token listed the members *)
C9_Witness ==
    \E c \in Clients :
        LET r == reqs[c]
        IN /\ r.op = "get_members" /\ Answered(r) /\ r.status = 200
           /\ r.tok \in loggedOut

----------------------------------------------------------------------------
(* Registration (SpecReg): two clients register concurrently while the     *)
(* admin-creation script runs, from an empty users collection.              *)

InitReg ==
    /\ users = << >>
    /\ jobs = << >>
    /\ apps = << >>
    /\ members = {"member1"}
    /\ nextJob = 0
    /\ reqs = [c \in Clients |-> Idle]
    /\ now = 0
    /\ ticks = 0
    /\ issued = {}
    /\ script = "idle"
    /\ loggedOut = {}
    /\ viewLog = << >>

RegInputs ==
    {RegData(RegFields, e, "password", ro) :
        e \in {ADMIN_EMAIL, "user@test.com"}, ro \in {"admin", "user", "guest"}}
    \cup {RegData({"email", "password"}, "user@test.com", "password", "")}

NextReg ==
    \/ \E c \in Clients :
          \/ \E data \in RegInputs : register_user_check(c, data)
          \/ register_user_insert(c)
    \/ ensure_admin_user_check
    \/ ensure_admin_user_insert
    \/ ensure_admin_user_rerun

SpecReg == InitReg /\ [][NextReg]_vars

(* C10: no two stored accounts have the same email. *)
C10_UniqueEmails ==
    \A i \in 1..Len(users) : \A j \in 1..Len(users) :
        users[i].email = users[j].email => i = j

----------------------------------------------------------------------------
(* Accounts (SpecAcct): two clients register and log in concurrently, from *)
(* an empty users collection, with one email, two secrets and the roles     *)
(* user, admin and guest.                                                   *)

AcctEmails == {"user@test.com"}
AcctPasswords == {"password", "password2"}

AcctInputs ==
    {RegData(RegFields, e, pw, ro) :
        e \in AcctEmails, pw \in AcctPasswords, ro \in {"admin", "user", "guest"}}

NextAcct ==
    \E c \in Clients :
        \/ \E data \in AcctInputs : register_user_check(c, data)
        \/ register_user_insert(c)
        \/ \E email \in AcctEmails : \E password \in AcctPasswords :
              login(c, email, password)

SpecAcct == InitReg /\ [][NextAcct]_vars

WellFormedRegistration(r) ==
    r.op = "register_user" /\ RegFields \subseteq r.data.keys

(* C11: a registration with all three fields and a valid role whose email  *)
(* is that of an account stored when it is received is answered 409 and     *)
(* inserts nothing, whatever its password and role.                         *)
C11_DuplicateEmail ==
    \A c \in Clients :
        LET r == reqs[c]
        IN (WellFormedRegistration(r) /\ r.taken
              /\ r.data.role \in {"admin", "recruiter", "user"})
            => (Answered(r) /\ r.status = 409 /\ ~r.wrote)

(* a registration with another password and another role than the stored  *)
(* account of the same email was answered 409, and one account is stored    *)
C11_Witness ==
    \E c \in Clients :
        LET r == reqs[c]
        IN /\ WellFormedRegistration(r) /\ r.taken /\ r.status = 409
           /\ Len(users) = 1
           /\ users[1].email = r.data.email
           /\ users[1].password # hash_password(r.data.password)
           /\ users[1].role # r.data.role

(* C12: a registration whose role is outside {admin, recruiter, user} is   *)
(* answered 400 (invalid role) and inserts nothing, also when an account    *)
(* with its email is stored.                                                *)
C12_InvalidRole ==
    \A c \in Clients :
        LET r == reqs[c]
        IN (WellFormedRegistration(r)
              /\ r.data.role \notin {"admin", "recruiter", "user"})
            => (Answered(r) /\ r.status = 400 /\ r.kind = "invalid_role" /\ ~r.wrote)

(* a registration with role guest and the email of a stored account was    *)
(* answered 400 *)
C12_Witness ==
    \E c \in Clients :
        LET r == reqs[c]
        IN /\ WellFormedRegistration(r) /\ r.data.role = "guest" /\ r.taken
           /\ r.status = 400 /\ r.kind = "invalid_role"

LoginStep(c) == reqs'[c] # reqs[c] /\ reqs'[c].op = "login"

(* C13: a login that follows a registration answered 201 and carries its   *)
(* email and secret is answered 200, inserts nothing, and returns a token   *)
(* that verifies and embeds the registered account's id and role.           *)
C13_LoginAfterRegistration ==
    [][\A c \in Clients : \A d \in Clients :
          (/\ LoginStep(c)
           /\ reqs[d].op = "register_user" /\ reqs[d].status = 201
           /\ reqs'[c].data.email = reqs[d].data.email
           /\ reqs'[c].data.password = reqs[d].data.password)
          => (/\ reqs'[c].status = 200
              /\ users' = users
              /\ jwt_decode(reqs'[c].tok, now) = {"ok"}
              /\ reqs'[c].tok.user_id = reqs[d].uid
              /\ reqs'[c].tok.role = reqs[d].data.role)]_vars

----------------------------------------------------------------------------
(* Job updates (SpecUpdate): one client creates jobs, updates them with    *)
(* request bodies that carry any of title, posted_by and views, and fetches *)
(* them, as the admin or as a recruiter.                                    *)

(* the token login returns for the i-th account *)
TokenOf(i) == jwt_encode(users[i], i, now)

(* update_job passes the whole JSON body to $set *)
ArbitraryBodies ==
    {[keys |-> ks, title |-> IF "title" \in ks THEN "Updated" ELSE "",
      posted_by |-> IF "posted_by" \in ks THEN Str(3) ELSE NoStr,
      views |-> 0] : ks \in SUBSET {"title", "posted_by", "views"}}

CreateBody == [EmptyBody EXCEPT !.keys = CreateRequired, !.title = "Test Job"]

RequestUpdate(c) ==
    \E i \in {1, 2} :
        \/ Begin(c, "create_job", TokenOf(i), NoStr, CreateBody)
        \/ \E jid \in JobIdInputs : \E body \in ArbitraryBodies :
              Begin(c, "update_job", TokenOf(i), jid, body)

NextUpdate ==
    \E c \in SeqClients :
        \/ RequestUpdate(c) /\ UNCHANGED loggedOut
        \/ create_job_insert(c)
        \/ create_job_fetch(c)
        \/ update_job_find(c)
        \/ update_job_write(c)
        \/ update_job_fetch(c)
        \/ \E jid \in JobIdInputs : get_job_by_id(c, jid)

SpecUpdate == Init /\ [][NextUpdate]_vars

(* C14: a job's posted_by is the creating request's account id when the    *)
(* job is inserted, and no step changes the posted_by of a stored job.      *)
C14_OwnerImmutable ==
    [][\A oid \in DOMAIN jobs' :
          IF oid \in DOMAIN jobs
          THEN jobs'[oid].posted_by = jobs[oid].posted_by
          ELSE \E c \in Clients :
                  reqs[c].pc = "cj_insert" /\ jobs'[oid].posted_by = reqs[c].uid]_vars

FetchStep(c, oid) ==
    /\ reqs'[c] # reqs[c]
    /\ reqs'[c].op = "get_job_by_id" /\ reqs'[c].status = 200
    /\ reqs'[c].jid = Str(oid)

(* C15: no step decreases the views of a stored job, and a step changes    *)
(* them only by +1 and only as a fetch by id answered 200.                  *)
C15_ViewsMonotonic ==
    [][\A oid \in DOMAIN jobs \cap DOMAIN jobs' :
          \/ jobs'[oid].views = jobs[oid].views
          \/ /\ jobs'[oid].views = jobs[oid].views + 1
             /\ \E c \in Clients : FetchStep(c, oid)]_vars

----------------------------------------------------------------------------
(* Job views (SpecViews): the admin or a recruiter creates jobs and two    *)
(* clients fetch them by id concurrently; nothing else touches a job.       *)

NextViews ==
    \E c \in Clients :
        \/ \E i \in {1, 2} :
              Begin(c, "create_job", TokenOf(i), NoStr, CreateBody) /\ UNCHANGED loggedOut
        \/ create_job_insert(c)
        \/ create_job_fetch(c)
        \/ \E jid \in JobIdInputs : get_job_by_id(c, jid)

SpecViews == Init /\ [][NextViews]_vars

(* C16: a job that was never fetched has views 0, and the i-th fetch by id *)
(* of a job returns views i (1, 2, ..., N in order), which is the count     *)
(* stored by that fetch.                                                    *)
C16_SequentialViews ==
    \A oid \in DOMAIN jobs :
        LET log == LogOf(oid)
        IN /\ log = << >> => jobs[oid].views = 0
           /\ \A i \in 1..Len(log) : log[i] = i
           /\ log # << >> => log[Len(log)] = jobs[oid].views

(* a job created with views 0 was fetched twice: 1, then 2 *)
C16_Witness ==
    \E oid \in DOMAIN jobs : \E c \in Clients :
        /\ LogOf(oid) = <<1, 2>>
        /\ reqs[c].op = "get_job_by_id" /\ reqs[c].jid = Str(oid) /\ reqs[c].views = 2

Fetched(c, oid) ==
    /\ reqs[c].op = "get_job_by_id" /\ reqs[c].status = 200
    /\ reqs[c].jid = Str(oid)

(* C17: under every interleaving of the fetches of two clients, a job's    *)
(* views equal the number of fetches answered 200 for it, these fetches     *)
(* returned pairwise different counts that are exactly 1 .. views, and two  *)
(* clients never hold the same count for the same job.                      *)
C17_NoLostIncrement ==
    \A oid \in DOMAIN jobs :
        LET log == LogOf(oid)
        IN /\ jobs[oid].views = Len(log)
           /\ {log[i] : i \in 1..Len(log)} = 1..jobs[oid].views
           /\ \A i \in 1..Len(log) : \A j \in 1..Len(log) : log[i] = log[j] => i = j
           /\ \A c \in Clients : \A d \in Clients :
                 (c # d /\ Fetched(c, oid) /\ Fetched(d, oid))
                    => reqs[c].views # reqs[d].views

(* both clients fetched the same job: one holds views 1, the other 2, and  *)
(* the job has views 2 *)
C17_Witness ==
    \E oid \in DOMAIN jobs :
        /\ Fetched("c1", oid) /\ Fetched("c2", oid)
        /\ {reqs["c1"].views, reqs["c2"].views} = {1, 2}
        /\ jobs[oid].views = 2

----------------------------------------------------------------------------
(* Applications, one request at a time (SpecApply): the admin or a         *)
(* recruiter creates jobs and the admin deletes them; the user, the admin,  *)
(* a recruiter and a caller without token apply to a stored, an absent or   *)
(* a malformed job id, with all required fields or without.                 *)

ApplyBodies == BodyInputs("apply_for_job")

ApplyTokens == {NoToken} \cup {TokenOf(i) : i \in {1, 2, 4}}

RequestApply(c) ==
    \/ \E i \in {1, 2} : Begin(c, "create_job", TokenOf(i), NoStr, CreateBody)
    \/ \E jid \in JobIdInputs : Begin(c, "delete_job", TokenOf(1), jid, EmptyBody)
    \/ \E tok \in ApplyTokens : \E jid \in JobIdInputs : \E body \in ApplyBodies :
          BeginApply(c, tok, jid, body)

StepApply(c) ==
    \/ create_job_insert(c)
    \/ create_job_fetch(c)
    \/ apply_for_job_find(c)
    \/ apply_for_job_check(c)
    \/ apply_for_job_insert(c)

NextApply ==
    \E c \in SeqClients :
        \/ RequestApply(c) /\ UNCHANGED loggedOut
        \/ StepApply(c)
        \/ delete_job_find(c)
        \/ delete_job_delete(c)

SpecApply == Init /\ [][NextApply]_vars

(* the stored applications of an applicant to a job *)
Applications(oid, uid) ==
    {i \in 1..Len(apps) : apps[i].job_id = oid /\ apps[i].applicant_id = uid}

(* the step that answers the application client c has in flight *)
ApplyAnswered(c) ==
    /\ reqs[c].op = "apply_for_job" /\ ~Free(c)
    /\ reqs'[c].pc = "done"

AtMostOnePerPair ==
    \A oid \in DOMAIN jobs : \A i \in 1..Len(users) :
        Cardinality(Applications(oid, Str(i))) <= 1

(* C18: with one request at a time, the application of a user to a stored  *)
(* job with all required fields is answered 201 and appends one pending     *)
(* application of the caller when the caller has none for the job, and is   *)
(* answered 409 and stores nothing when the caller has one; no (job,        *)
(* applicant) pair ever has two applications.                               *)
C18_ApplyTwice ==
    /\ []AtMostOnePerPair
    /\ [][\A c \in Clients :
            LET r == reqs[c]
                oid == ObjectId(r.jid)
            IN (/\ ApplyAnswered(c) /\ r.role = "user"
                /\ ~ObjectIdRaises(r.jid) /\ JobExists(oid)
                /\ ApplyRequired \subseteq r.body.keys)
               => IF Applications(oid, r.uid) # {}
                  THEN reqs'[c].status = 409 /\ apps' = apps
                  ELSE /\ reqs'[c].status = 201
                       /\ apps' = Append(apps, [job_id |-> oid, applicant_id |-> r.uid,
                                                 status |-> "pending"])]_vars

(* the second application of the user to a job was answered 409, and the   *)
(* one pending application of the first is stored *)
C18_Witness ==
    \E c \in Clients :
        LET r == reqs[c]
        IN /\ Answered(r) /\ r.op = "apply_for_job" /\ r.status = 409
           /\ ApplyRequired \subseteq r.body.keys
           /\ Len(apps) = 1
           /\ apps[1] = [job_id |-> ObjectId(r.jid), applicant_id |-> r.uid,
                          status |-> "pending"]

UserApplied(r) ==
    r.op = "apply_for_job" /\ Answered(r) /\ Authenticated(r) /\ r.role = "user"

(* the outcomes every reading of the order of checks shares: the role      *)
(* before any lookup, a well-formed id of no stored job 404 and a repeated  *)
(* application 409 whatever the fields, 201 only with all fields            *)
CheckOrder(r) ==
    LET oid == ObjectId(r.jid)
        missing == ~(ApplyRequired \subseteq r.body.keys)
    IN /\ (r.op = "apply_for_job" /\ Authenticated(r) /\ r.role # "user")
            => (Answered(r) /\ r.status = 403 /\ ~r.wrote)
       /\ UserApplied(r) =>
            /\ (~ObjectIdRaises(r.jid) /\ ~JobExists(oid)) => r.status = 404
            /\ (JobExists(oid) /\ missing /\ Applications(oid, r.uid) # {})
                  => r.status = 409
            /\ (JobExists(oid) /\ missing /\ Applications(oid, r.uid) = {})
                  => r.status = 400
            /\ r.status = 201 => (~missing /\ r.wrote)
            /\ r.status # 201 => ~r.wrote

(* C20 as stated: the checks run in the order role, job exists, duplicate, *)
(* required fields, insert, the first that fails answers, and 400 is the    *)
(* answer only when the job is stored and the caller has no application     *)
(* for it.                                                                  *)
C20_CheckOrderStated ==
    \A c \in Clients :
        LET r == reqs[c]
        IN /\ CheckOrder(r)
           /\ (UserApplied(r) /\ r.status = 400)
                => (JobExists(ObjectId(r.jid)) /\ Applications(ObjectId(r.jid), r.uid) = {})

(* C20 as amended: the checks run in the order role, id well-formed, job   *)
(* stored, duplicate, required fields, insert, and the first that fails     *)
(* answers: a malformed id is answered 400 (invalid id) whatever else; 400  *)
(* for missing fields is the answer only when the job is stored and the     *)
(* caller has no application for it.                                        *)
C20_CheckOrder ==
    \A c \in Clients :
        LET r == reqs[c]
        IN /\ CheckOrder(r)
           /\ (UserApplied(r) /\ ObjectIdRaises(r.jid))
                => (r.status = 400 /\ r.kind = "bad_id")
           /\ (UserApplied(r) /\ r.status = 400 /\ ~ObjectIdRaises(r.jid))
                => (/\ r.kind = "missing_fields"
                    /\ JobExists(ObjectId(r.jid))
                    /\ Applications(ObjectId(r.jid), r.uid) = {})

(* the user applied again, without the required fields, to a job they had  *)
(* applied to, and was answered 409 *)
C20_Witness ==
    \E c \in Clients :
        LET r == reqs[c]
        IN /\ UserApplied(r) /\ r.status = 409
           /\ ~(ApplyRequired \subseteq r.body.keys)
           /\ Applications(ObjectId(r.jid), r.uid) # {}

----------------------------------------------------------------------------
(* Applications of two clients (SpecRace): both clients apply with the     *)
(* user's token while jobs are created.                                     *)

RequestRace(c) ==
    \/ \E i \in {1, 2} : Begin(c, "create_job", TokenOf(i), NoStr, CreateBody)
    \/ \E jid \in JobIdInputs : \E body \in ApplyBodies :
          BeginApply(c, TokenOf(4), jid, body)

NextRace ==
    \E c \in Clients :
        \/ RequestRace(c) /\ UNCHANGED loggedOut
        \/ StepApply(c)

SpecRace == Init /\ [][NextRace]_vars

(* C19: an application that has passed the existence check is inserted and *)
(* answered 201 whatever was inserted since the check: nothing at the       *)
(* insert prevents a second application of the same applicant to the same   *)
(* job.                                                                     *)
C19_DuplicateRace ==
    [][\A c \in Clients :
          (reqs[c].pc = "ap_insert" /\ reqs'[c] # reqs[c])
          => (/\ reqs'[c].status = 201
              /\ apps' = Append(apps, [job_id |-> ObjectId(reqs[c].jid),
                                        applicant_id |-> reqs[c].uid,
                                        status |-> "pending"]))]_vars

(* both clients applied as the same user to the same job, both were        *)
(* answered 201, and two applications of that user to that job are stored   *)
C19_Witness ==
    /\ UserApplied(reqs["c1"]) /\ UserApplied(reqs["c2"])
    /\ reqs["c1"].status = 201 /\ reqs["c2"].status = 201
    /\ reqs["c1"].uid = reqs["c2"].uid
    /\ reqs["c1"].jid = reqs["c2"].jid
    /\ Cardinality(Applications(ObjectId(reqs["c1"].jid), reqs["c1"].uid)) = 2

----------------------------------------------------------------------------
(* Concurrent job maintenance (SpecConc): two clients create, update and   *)
(* delete jobs as the admin or as a recruiter, their storage calls          *)
(* interleaving.                                                            *)

(* update bodies: no business field, or a new owner *)
OwnerBodies == {b \in ArbitraryBodies : b.keys \subseteq {"posted_by"}}

RequestConc(c) ==
    \/ Begin(c, "create_job", TokenOf(2), NoStr, CreateBody)
    \/ \E i \in {1, 2}, jid \in JobIdInputs :
          \/ \E body \in OwnerBodies : Begin(c, "update_job", TokenOf(i), jid, body)
          \/ Begin(c, "delete_job", TokenOf(i), jid, EmptyBody)

NextConc ==
    \E c \in Clients :
        \/ RequestConc(c) /\ UNCHANGED loggedOut
        \/ create_job_insert(c)
        \/ create_job_fetch(c)
        \/ update_job_find(c)
        \/ update_job_write(c)
        \/ update_job_fetch(c)
        \/ delete_job_find(c)
        \/ delete_job_delete(c)

SpecConc == Init /\ [][NextConc]_vars

(* the caller of a job-scoped request passed authentication and the role   *)
(* gate of the operation, and the request has been answered                 *)
JobScopedAnswered(r) ==
    /\ Answered(r)
    /\ \/ r.op = "get_job_by_id"
       \/ r.op \in {"update_job", "delete_job", "get_job_applications"}
             /\ Authenticated(r) /\ r.role \in {"admin", "recruiter"}
       \/ r.op = "apply_for_job" /\ Authenticated(r) /\ r.role = "user"

(* C21: a job-scoped request of a caller who passed authentication and the *)
(* role gate is answered 400 (invalid id) when its job id is malformed, and *)
(* only then; it is answered 404 only for a well-formed id.                 *)
C21_MalformedOrAbsent ==
    \A c \in Clients :
        LET r == reqs[c]
        IN JobScopedAnswered(r) =>
            /\ ObjectIdRaises(r.jid) => (r.status = 400 /\ r.kind = "bad_id")
            /\ r.kind = "bad_id" => ObjectIdRaises(r.jid)
            /\ r.status = 404 => ~ObjectIdRaises(r.jid)

(* client c takes the storage step its request is waiting at *)
StepsFrom(c, pc) == reqs[c].pc = pc /\ reqs'[c] # reqs[c]

(* C26: when the write of a recruiter's update or delete changes the jobs, *)
(* the job it names is owned by that recruiter at that moment.              *)
C26_OwnerAtWrite ==
    [][\A c \in Clients :
          ( /\ StepsFrom(c, "uj_write") \/ StepsFrom(c, "dj_delete")
            /\ reqs[c].role = "recruiter"
            /\ jobs' # jobs )
          => /\ ObjectId(reqs[c].jid) \in DOMAIN jobs
             /\ jobs[ObjectId(reqs[c].jid)].posted_by = reqs[c].uid]_vars

FiveKinds == {400, 401, 403, 404, 409}

(* C27: a request answered with an authentication, authorization,          *)
(* validation, not-found or conflict error has written nothing to storage.  *)
C27_ErrorsWriteNothing ==
    \A c \in Clients :
        (Answered(reqs[c]) /\ reqs[c].status \in FiveKinds) => ~reqs[c].wrote

(* C29: when update_job's write finds the job gone (deleted after the      *)
(* existence check), the request is answered 404 and the jobs are left as   *)
(* they are; in particular it is not answered 200.                          *)
C29_UpdateOfDeleted ==
    [][\A c \in Clients :
          (StepsFrom(c, "uj_write") /\ ObjectId(reqs[c].jid) \notin DOMAIN jobs)
          => (reqs'[c].status = 404 /\ jobs' = jobs)]_vars

(* C28 as stated: the job of every stored application is a stored job. *)
C28_JobOfApplicationStored ==
    \A i \in 1..Len(apps) : apps[i].job_id \in DOMAIN jobs

(* C28: the job id of every stored application is the id of a job that was *)
(* created; it is stored, or it has been deleted since.                     *)
C28_JobOfApplication ==
    \A i \in 1..Len(apps) : \E k \in 1..nextJob : apps[i].job_id = JobOid(k)

(* an application is stored and the job it was submitted to is deleted *)
C28_Witness ==
    \E i \in 1..Len(apps) :
        /\ apps[i].job_id \notin DOMAIN jobs
        /\ \E k \in 1..nextJob : apps[i].job_id = JobOid(k)

(* the stored accounts with the admin email *)
AdminAccounts(us) == {i \in 1..Len(us) : us[i].email = ADMIN_EMAIL}

(* C30: when ensure_admin_user completes, exactly one account has the      *)
(* admin email and its role is admin; a run that finds the account leaves   *)
(* the accounts as they are.                                                *)
C30_EnsureAdmin ==
    [][(script # "done" /\ script' = "done")
       => /\ Cardinality(AdminAccounts(users')) = 1
          /\ \A i \in AdminAccounts(users') : users'[i].role = "admin"
          /\ AdminAccounts(users) # {} => users' = users]_vars

----------------------------------------------------------------------------
(* Updates over time (SpecMerge): one request at a time, a recruiter       *)
(* creates a job, the admin and the recruiter update it with arbitrary      *)
(* bodies, and the clock advances between requests.                         *)

RequestMerge(c) ==
    \/ Begin(c, "create_job", TokenOf(2), NoStr, CreateBody)
    \/ \E i \in {1, 2}, jid \in JobIdInputs, body \in ArbitraryBodies :
          Begin(c, "update_job", TokenOf(i), jid, body)

NextMerge ==
    \/ \E c \in SeqClients :
          \/ RequestMerge(c) /\ UNCHANGED loggedOut
          \/ create_job_insert(c)
          \/ create_job_fetch(c)
          \/ update_job_find(c)
          \/ update_job_write(c)
          \/ update_job_fetch(c)
    \/ Tick(1)

SpecMerge == Init /\ [][NextMerge]_vars

(* C24: the write of a permitted update leaves the job with the body's     *)
(* value in every field the body names and its old value in the others,     *)
(* with updated_by the caller and updated_at the current time, and the      *)
(* request is answered 200 whatever the body, no business field included.   *)
C24_UpdateMerges ==
    [][\A c \in SeqClients :
          /\ StepsFrom(c, "uj_write") =>
                LET r == reqs[c]
                    oid == ObjectId(r.jid)
                IN /\ oid \in DOMAIN jobs /\ oid \in DOMAIN jobs'
                   /\ jobs'[oid].title =
                        IF "title" \in r.body.keys THEN r.body.title ELSE jobs[oid].title
                   /\ jobs'[oid].posted_by =
                        IF "posted_by" \in r.body.keys THEN r.body.posted_by
                        ELSE jobs[oid].posted_by
                   /\ jobs'[oid].views =
                        IF "views" \in r.body.keys THEN r.body.views ELSE jobs[oid].views
                   /\ jobs'[oid].updated_by = r.uid
                   /\ jobs'[oid].updated_at = now
                   /\ \A o \in DOMAIN jobs \ {oid} : o \in DOMAIN jobs' /\ jobs'[o] = jobs[o]
                   /\ reqs'[c].pc = "uj_fetch" \/ reqs'[c].status = 200
          /\ StepsFrom(c, "uj_fetch") => reqs'[c].status = 200]_vars

(* an update without business fields, sent after the clock advanced, has   *)
(* been written: the job carries the caller and the time, its other fields  *)
(* are those of its creation                                                *)
C24_Witness ==
    \E c \in SeqClients :
        LET r == reqs[c]
            oid == ObjectId(r.jid)
        IN /\ r.pc = "uj_fetch" /\ now > 0
           /\ oid \in DOMAIN jobs
           /\ jobs[oid].updated_by = r.uid /\ jobs[oid].updated_at = now
           /\ jobs[oid].title = "Test Job" /\ jobs[oid].posted_by = Str(2)
           /\ jobs[oid].views = 0

----------------------------------------------------------------------------
(* Roles and listings (SpecRoles): one request at a time.  Besides the     *)
(* seeded accounts there are a second user and an account whose role is     *)
(* 'guest', put in the collection directly as test_unknown_role_applications*)
(* does.  Recruiters create jobs, users apply, the admin hands a job to the *)
(* other recruiter, everybody lists 'my applications', and the guest tries  *)
(* every protected operation.                                               *)

RoleUsers ==
    SeedUsers \o <<Account("user2@test.com", "password", "user"),
                   Account("unknown@test.com", "password", "guest")>>

Guest == Len(RoleUsers)

InitRoles ==
    /\ users = RoleUsers
    /\ jobs = << >>
    /\ apps = << >>
    /\ members = {"member1"}
    /\ nextJob = 0
    /\ reqs = [c \in Clients |-> Idle]
    /\ now = 0
    /\ ticks = 0
    /\ issued = {}
    /\ script = "idle"
    /\ loggedOut = {}
    /\ viewLog = << >>

FullApplication == [EmptyBody EXCEPT !.keys = ApplyRequired]

RequestRoles(c) ==
    \/ \E i \in {2, 3} : Begin(c, "create_job", TokenOf(i), NoStr, CreateBody)
    \/ \E i \in {4, 5}, jid \in JobIdInputs : BeginApply(c, TokenOf(i), jid, FullApplication)
    \/ \E jid \in JobIdInputs :
          Begin(c, "update_job", TokenOf(1), jid,
                [EmptyBody EXCEPT !.keys = {"posted_by"}, !.posted_by = Str(3)])
    \/ \E i \in 1..Len(users) : Receive(c, "get_my_applications", TokenOf(i), NoStr, EmptyBody)
    \/ \E op \in ProtectedOps \ {"logout", "get_my_applications"} :
          \E jid \in JidInputs(op) : \E body \in {CreateBody, FullApplication} :
              Receive(c, op, TokenOf(Guest), jid, body)

NextRoles ==
    \E c \in SeqClients :
        \/ RequestRoles(c) /\ UNCHANGED loggedOut
        \/ create_job_insert(c)
        \/ create_job_fetch(c)
        \/ apply_for_job_find(c)
        \/ apply_for_job_check(c)
        \/ apply_for_job_insert(c)
        \/ update_job_find(c)
        \/ update_job_write(c)
        \/ update_job_fetch(c)
        \/ get_my_applications_user(c)
        \/ get_my_applications_admin(c)
        \/ get_my_applications_jobs(c)
        \/ get_my_applications_apps(c)

SpecRoles == InitRoles /\ [][NextRoles]_vars

(* the stored applications whose job is stored and posted by uid *)
ApplicationsToJobsOf(uid) ==
    {i \in 1..Len(apps) :
        apps[i].job_id \in DOMAIN jobs /\ jobs[apps[i].job_id].posted_by = uid}

(* C22: 'my applications' answers a user with exactly the applications the *)
(* caller submitted, an admin with all applications, and a recruiter with   *)
(* exactly the applications to the jobs the caller owns now.                *)
C22_Visibility ==
    \A c \in SeqClients :
        LET r == reqs[c]
        IN (Answered(r) /\ r.op = "get_my_applications" /\ Authenticated(r)) =>
            /\ r.status = 200
            /\ r.role = "user" =>
                  r.result = {i \in 1..Len(apps) : apps[i].applicant_id = r.uid}
            /\ r.role = "admin" => r.result = 1..Len(apps)
            /\ r.role = "recruiter" => r.result = ApplicationsToJobsOf(r.uid)

(* two users have applied, to a job the admin handed to the other          *)
(* recruiter, who lists both applications                                   *)
C22_Witness ==
    \E c \in SeqClients :
        LET r == reqs[c]
        IN /\ Answered(r) /\ r.op = "get_my_applications" /\ r.role = "recruiter"
           /\ r.uid = Str(3)
           /\ Cardinality(r.result) = 2
           /\ \E i \in r.result, j \in r.result : apps[i].applicant_id # apps[j].applicant_id

KnownRoles == {"admin", "recruiter", "user"}

(* C23: a request of an account whose role is none of admin, recruiter,    *)
(* user is answered at once: 200 with no application for 'my applications', *)
(* 403 for every role-gated operation and for apply, and never 500.         *)
C23_UnknownRole ==
    \A c \in SeqClients :
        LET r == reqs[c]
        IN (Authenticated(r) /\ r.role \notin KnownRoles) =>
            /\ Answered(r)
            /\ r.status # 500
            /\ r.op = "get_my_applications" => (r.status = 200 /\ r.result = {})
            /\ (HasRoleGate(r.op) \/ r.op = "apply_for_job") => r.status = 403

(* the guest has been refused an operation on a stored job to which a user *)
(* has applied                                                               *)
C23_Witness ==
    \E c \in SeqClients :
        LET r == reqs[c]
        IN /\ Answered(r) /\ Authenticated(r) /\ r.role = "guest"
           /\ r.status = 403
           /\ jobs # << >> /\ apps # << >>

----------------------------------------------------------------------------
(* Storage failures (SpecFail): one request at a time; any call to the     *)
(* storage may raise (connectivity loss), and the request is then answered  *)
(* by the except clause around the call, or by the framework where there is *)
(* none.  The field 'failed' of a request records that a call raised.       *)

(* app.py:191, 217, 315: except Exception -> 400 'Invalid job ID format' *)
CatchAllAsBadId == {"uj_find", "uj_write", "uj_fetch", "dj_find", "dj_delete",
                    "la_find", "la_list"}
(* app.py:279-282: except Exception as e -> 400, the exception's text *)
CatchAllAs400 == {"ap_find", "ap_dup", "ap_insert"}
(* app.py:349, 372: except Exception as e -> 500, the exception's text *)
CatchAllAs500 == {"ma_user", "ma_admin", "ma_jobs", "ma_apps", "mb_list"}

(* the storage call the request of c is waiting at raises *)
storage_failure(c) ==
    /\ ~Free(c)
    /\ LET r == [reqs[c] EXCEPT !.failed = TRUE]
       IN Set(c, CASE r.pc \in CatchAllAsBadId -> Respond(r, 400, "bad_id")
                   [] r.pc \in CatchAllAs400 -> Respond(r, 400, "exception_text")
                   [] r.pc \in CatchAllAs500 -> Respond(r, 500, "exception_text")
                   [] OTHER -> Respond(r, 500, "unhandled"))
    /\ UNCHANGED <<users, jobs, apps, members, nextJob, now, ticks, issued, script, loggedOut, viewLog>>

(* app.py:150-162: find_one_and_update raises inside get_job_by_id's try *)
get_job_by_id_fails(c, jid) ==
    /\ Free(c)
    /\ ~ObjectIdRaises(jid)
    /\ Set(c, Respond([Idle EXCEPT !.op = "get_job_by_id", !.jid = jid, !.t0 = now,
                                   !.failed = TRUE], 400, "bad_id"))
    /\ UNCHANGED <<users, jobs, apps, members, nextJob, now, ticks, issued, script, loggedOut, viewLog>>

(* auth.py:109-112: users.find_one raises in token_required, which catches *)
(* jwt errors only                                                          *)
token_required_fails(c, op, tok) ==
    /\ Free(c)
    /\ tok.kind = "signed" /\ tok.hasUid /\ ~ObjectIdRaises(tok.user_id)
    /\ "ok" \in jwt_decode(tok, now)
    /\ Set(c, Respond([Idle EXCEPT !.op = op, !.tok = tok, !.t0 = now, !.failed = TRUE],
                      500, "unhandled"))
    /\ UNCHANGED <<users, jobs, apps, members, nextJob, now, ticks, issued, script, loggedOut, viewLog>>

(* app.py:70-88: db.command('ping') answers, or raises *)
health_check(c, up) ==
    /\ Free(c)
    /\ Set(c, Respond([Idle EXCEPT !.op = "health_check", !.t0 = now, !.failed = ~up],
                      IF up THEN 200 ELSE 503, IF up THEN "healthy" ELSE "unhealthy"))
    /\ UNCHANGED <<users, jobs, apps, members, nextJob, now, ticks, issued, script, loggedOut, viewLog>>

RequestFail(c) ==
    \/ Begin(c, "create_job", TokenOf(1), NoStr, CreateBody)
    \/ \E op \in {"update_job", "delete_job", "get_job_applications"}, jid \in JobIdInputs :
          Begin(c, op, TokenOf(1), jid, EmptyBody)
    \/ \E jid \in JobIdInputs : BeginApply(c, TokenOf(4), jid, FullApplication)
    \/ \E i \in {1, 2, 4} : Receive(c, "get_my_applications", TokenOf(i), NoStr, EmptyBody)
    \/ Receive(c, "get_members", TokenOf(1), NoStr, EmptyBody)

NextFail ==
    \E c \in SeqClients :
        \/ RequestFail(c) /\ UNCHANGED loggedOut
        \/ Step(c)
        \/ \E jid \in JobIdInputs : get_job_by_id(c, jid)
        \/ storage_failure(c)
        \/ \E jid \in JobIdInputs : get_job_by_id_fails(c, jid)
        \/ \E op \in ProtectedOps : token_required_fails(c, op, TokenOf(4))
        \/ \E up \in BOOLEAN : health_check(c, up)

SpecFail == Init /\ [][NextFail]_vars

(* C25: a request during which a storage call raised is answered with none *)
(* of the five error kinds and not as a malformed id, and the health check  *)
(* answers 503 exactly when its ping raised.                                *)
C25_StorageFailure ==
    \A c \in SeqClients :
        LET r == reqs[c]
        IN /\ r.failed =>
                /\ Answered(r)
                /\ r.status \notin FiveKinds
                /\ r.kind # "bad_id"
           /\ (Answered(r) /\ r.op = "health_check") => (r.status = 503 <=> r.failed)

====
